---- MODULE Spec2Model ----
(***************************************************************************)
(* AlphaSignal: the contradiction-alert engine (class ContradictionAlerts  *)
(* of src/src/subscribers/SubscriberManager.js), the sweeps that           *)
(* src/src/index.js starts on it, the subscriber store (class              *)
(* SubscriberManager of the same file), the cron jobs class AlphaSignal    *)
(* of src/src/index.js schedules, and the error list of AnalyticsService   *)
(* (src/src/services/AnalyticsService.js).                                 *)
(*                                                                         *)
(* Texts are sequences of one-character strings, so that                   *)
(* String.prototype.includes is a real substring test.  Time is an         *)
(* integer clock `now` (Date.now()); one unit stands for fifteen minutes,  *)
(* so the default alertCooldown of 30 minutes is 2 units.                  *)
(***************************************************************************)
EXTENDS Integers, Sequences, FiniteSets, TLC

(* ------------------------------ bounds -------------------------------- *)
\* largest limit passed to getRecentAlerts
MaxLimit == 3
\* the clock stops advancing at MaxTime
MaxTime == 3
\* number of check() sweeps started in one behaviour
MaxSweeps == 2
\* the same, for the instance that tracks two accounts
MaxWideSweeps == 1
\* subscribers the store may come to hold
MaxSubscribers == 2
\* number of trackError calls in one behaviour
MaxErrors == 103

(* ------------------------- program constants -------------------------- *)
\* this.alertCooldown (30 * 60 * 1000 ms) in clock units of fifteen minutes
alertCooldown == 2
\* the number of error records trackError keeps
ErrorsKept == 100

(* ------------------------------ strings ------------------------------- *)
UpperCase == <<"A","B","C","D","E","F","G","H","I","J","K","L","M",
               "N","O","P","Q","R","S","T","U","V","W","X","Y","Z">>
LowerCase == <<"a","b","c","d","e","f","g","h","i","j","k","l","m",
               "n","o","p","q","r","s","t","u","v","w","x","y","z">>

\* one character of String.prototype.toLowerCase
LowerChar(c) ==
  IF \E k \in 1..26 : UpperCase[k] = c
    THEN LowerCase[CHOOSE k \in 1..26 : UpperCase[k] = c]
    ELSE c

\* String.prototype.toLowerCase
toLowerCase(text) == [k \in 1..Len(text) |-> LowerChar(text[k])]

\* String.prototype.includes: term occurs in text as a contiguous substring
Includes(text, term) ==
  \E s \in 0..(Len(text) - Len(term)) :
    \A k \in 1..Len(term) : text[s + k] = term[k]

\* String.prototype.replace('@', ''): drops the first "@" only
ReplaceAt(name) ==
  IF \E k \in 1..Len(name) : name[k] = "@"
    THEN LET f == CHOOSE k \in 1..Len(name) :
                    name[k] = "@" /\ \A m \in 1..(k-1) : name[m] # "@"
         IN  SubSeq(name, 1, f - 1) \o SubSeq(name, f + 1, Len(name))
    ELSE name

(* ------------------------- keyword lists ------------------------------ *)
bullishTerms ==
  << <<"b","u","l","l">>, <<"b","u","y">>, <<"l","o","n","g">>,
     <<"m","o","o","n">>, <<"p","u","m","p">>, <<"u","p">>,
     <<"g","a","i","n">>, <<"p","r","o","f","i","t">> >>

bearishTerms ==
  << <<"b","e","a","r">>, <<"s","e","l","l">>, <<"s","h","o","r","t">>,
     <<"d","u","m","p">>, <<"d","o","w","n">>, <<"l","o","s","s">>,
     <<"c","r","a","s","h">>, <<"f","a","l","l">> >>

keywords ==
  << <<"b","i","t","c","o","i","n">>, <<"e","t","h","e","r","e","u","m">>,
     <<"t","e","s","l","a">>, <<"s","p","a","c","e","x">>,
     <<"d","o","g","e","c","o","i","n">>, <<"c","r","y","p","t","o">> >>

positiveWords ==
  << <<"g","o","o","d">>, <<"g","r","e","a","t">>,
     <<"e","x","c","e","l","l","e","n","t">>, <<"l","o","v","e">>,
     <<"a","m","a","z","i","n","g">>, <<"f","a","n","t","a","s","t","i","c">>,
     <<"p","e","r","f","e","c","t">>, <<"a","w","e","s","o","m","e">> >>

negativeWords ==
  << <<"b","a","d">>, <<"t","e","r","r","i","b","l","e">>,
     <<"a","w","f","u","l">>, <<"h","a","t","e">>,
     <<"h","o","r","r","i","b","l","e">>, <<"w","o","r","s","t">>,
     <<"d","i","s","a","p","p","o","i","n","t","i","n","g">>,
     <<"f","a","i","l">> >>

\* Array.prototype.some(term => text.includes(term))
SomeIncluded(terms, text) == \E k \in 1..Len(terms) : Includes(text, terms[k])

\* Array.prototype.filter(word => text.includes(word)).length
CountIncluded(words, text) ==
  Cardinality({k \in 1..Len(words) : Includes(text, words[k])})

(* --------------------------- detection -------------------------------- *)
\* assessSentiment(text): positive-word count minus negative-word count
assessSentiment(text) ==
  CountIncluded(positiveWords, text) - CountIncluded(negativeWords, text)

Sign(n) == IF n > 0 THEN 1 ELSE IF n < 0 THEN -1 ELSE 0
Abs(n) == IF n < 0 THEN -n ELSE n
Max(a, b) == IF a > b THEN a ELSE b

\* (tweet.metrics?.likes || 0) + (tweet.metrics?.retweets || 0); a tweet
\* without metrics, or metrics without a count, is a record without the field
Engagement(tweet) ==
  LET m(f) == IF "metrics" \in DOMAIN tweet
                THEN (IF f \in DOMAIN tweet.metrics THEN tweet.metrics[f] ELSE 0)
                ELSE 0
  IN  m("likes") + m("retweets")

\* calculateSeverity with the threshold included: >= 100
calculateSeverityAtLeast(tweet1, tweet2) ==
  IF Max(Engagement(tweet1), Engagement(tweet2)) >= 100 THEN "high" ELSE "medium"

calculateSeverity(tweet1, tweet2) ==
  IF Max(Engagement(tweet1), Engagement(tweet2)) > 100 THEN "high" ELSE "medium"

\* { id: tweet.id, text: tweet.text, timestamp: tweet.timestamp }
TweetRef(tweet) ==
  [id |-> tweet.id, text |-> tweet.text, timestamp |-> tweet.timestamp]

\* TopicIndex with the loop running to its end: the last keyword wins
TopicIndexLast(text1, text2) ==
  LET sentiment1 == assessSentiment(text1)
      sentiment2 == assessSentiment(text2)
      hit(k) == /\ Includes(text1, keywords[k])
                /\ Includes(text2, keywords[k])
                /\ Sign(sentiment1) # Sign(sentiment2)
                /\ 2 * Abs(sentiment1) >= 1
                /\ 2 * Abs(sentiment2) >= 1
  IN  IF \E k \in 1..Len(keywords) : hit(k)
        THEN CHOOSE k \in 1..Len(keywords) :
               hit(k) /\ \A m \in (k+1)..Len(keywords) : ~hit(m)
        ELSE 0

\* the topic loop of compareTweets: the first keyword both texts mention for
\* which the sentiment test passes; 0 when the loop falls through
TopicIndex(text1, text2) ==
  LET sentiment1 == assessSentiment(text1)
      sentiment2 == assessSentiment(text2)
      hit(k) == /\ Includes(text1, keywords[k])
                /\ Includes(text2, keywords[k])
                /\ Sign(sentiment1) # Sign(sentiment2)
                \* Math.abs(s) >= 0.5, on integers
                /\ 2 * Abs(sentiment1) >= 1
                /\ 2 * Abs(sentiment2) >= 1
  IN  IF \E k \in 1..Len(keywords) : hit(k)
        THEN CHOOSE k \in 1..Len(keywords) :
               hit(k) /\ \A m \in 1..(k-1) : ~hit(m)
        ELSE 0

\* compareTweets testing the shift one way only: tweet1 bullish, tweet2 bearish
compareTweetsOneWay(tweet1, tweet2) ==
  LET text1 == toLowerCase(tweet1.text)
      text2 == toLowerCase(tweet2.text)
      tweet1Bullish == SomeIncluded(bullishTerms, text1)
      tweet2Bearish == SomeIncluded(bearishTerms, text2)
      k == TopicIndex(text1, text2)
  IN  IF tweet1Bullish /\ tweet2Bearish
        THEN << [type |-> "sentiment-contradiction",
                 tweet1 |-> TweetRef(tweet1),
                 tweet2 |-> TweetRef(tweet2),
                 severity |-> calculateSeverity(tweet1, tweet2)] >>
      ELSE IF k # 0
        THEN << [type |-> "topic-contradiction",
                 keyword |-> keywords[k],
                 tweet1 |-> TweetRef(tweet1),
                 tweet2 |-> TweetRef(tweet2),
                 sentiment1 |-> assessSentiment(text1),
                 sentiment2 |-> assessSentiment(text2),
                 severity |-> calculateSeverity(tweet1, tweet2)] >>
      ELSE << >>

\* compareTweets going on to the keyword loop after the sentiment test has
\* matched: a pair that satisfies both rules yields two candidates
compareTweetsBoth(tweet1, tweet2) ==
  LET text1 == toLowerCase(tweet1.text)
      text2 == toLowerCase(tweet2.text)
      tweet1Bullish == SomeIncluded(bullishTerms, text1)
      tweet1Bearish == SomeIncluded(bearishTerms, text1)
      tweet2Bullish == SomeIncluded(bullishTerms, text2)
      tweet2Bearish == SomeIncluded(bearishTerms, text2)
      k == TopicIndex(text1, text2)
      bySentiment ==
        IF (tweet1Bullish /\ tweet2Bearish) \/ (tweet1Bearish /\ tweet2Bullish)
          THEN << [type |-> "sentiment-contradiction",
                   tweet1 |-> TweetRef(tweet1),
                   tweet2 |-> TweetRef(tweet2),
                   severity |-> calculateSeverity(tweet1, tweet2)] >>
          ELSE << >>
      byTopic ==
        IF k # 0
          THEN << [type |-> "topic-contradiction",
                   keyword |-> keywords[k],
                   tweet1 |-> TweetRef(tweet1),
                   tweet2 |-> TweetRef(tweet2),
                   sentiment1 |-> assessSentiment(text1),
                   sentiment2 |-> assessSentiment(text2),
                   severity |-> calculateSeverity(tweet1, tweet2)] >>
          ELSE << >>
  IN  bySentiment \o byTopic

\* compareTweets(tweet1, tweet2): <<c>> for a contradiction c, <<>> for null
compareTweets(tweet1, tweet2) ==
  LET text1 == toLowerCase(tweet1.text)
      text2 == toLowerCase(tweet2.text)
      tweet1Bullish == SomeIncluded(bullishTerms, text1)
      tweet1Bearish == SomeIncluded(bearishTerms, text1)
      tweet2Bullish == SomeIncluded(bullishTerms, text2)
      tweet2Bearish == SomeIncluded(bearishTerms, text2)
      k == TopicIndex(text1, text2)
  IN  IF (tweet1Bullish /\ tweet2Bearish) \/ (tweet1Bearish /\ tweet2Bullish)
        THEN << [type |-> "sentiment-contradiction",
                 tweet1 |-> TweetRef(tweet1),
                 tweet2 |-> TweetRef(tweet2),
                 severity |-> calculateSeverity(tweet1, tweet2)] >>
      ELSE IF k # 0
        THEN << [type |-> "topic-contradiction",
                 keyword |-> keywords[k],
                 tweet1 |-> TweetRef(tweet1),
                 tweet2 |-> TweetRef(tweet2),
                 sentiment1 |-> assessSentiment(text1),
                 sentiment2 |-> assessSentiment(text2),
                 severity |-> calculateSeverity(tweet1, tweet2)] >>
      ELSE << >>

\* findContradictions without the sort: the tweets are compared in the order
\* they were given
SortNewestFirstSkipped(tweets) == tweets

\* [...tweets].sort((a, b) => new Date(b.timestamp) - new Date(a.timestamp)):
\* a stable sort, newest first
RECURSIVE SortNewestFirst(_)
SortNewestFirst(tweets) ==
  IF tweets = << >> THEN << >>
  ELSE LET n == Len(tweets)
           rest == SortNewestFirst(SubSeq(tweets, 1, n - 1))
           x == tweets[n]
           \* x goes after every tweet that is at least as new
           pos == Cardinality({k \in 1..Len(rest) :
                                 rest[k].timestamp >= x.timestamp})
       IN  SubSeq(rest, 1, pos) \o <<x>> \o SubSeq(rest, pos + 1, Len(rest))

\* the inner loop of findContradictions, from j on
RECURSIVE CompareFrom(_, _, _)
CompareFrom(sortedTweets, i, j) ==
  IF j > Len(sortedTweets) THEN << >>
  ELSE compareTweets(sortedTweets[i], sortedTweets[j])
         \o CompareFrom(sortedTweets, i, j + 1)

\* CompareAllFrom with the inner loop starting at j = i: each tweet is also
\* compared with itself
RECURSIVE CompareAllFromSelf(_, _)
CompareAllFromSelf(sortedTweets, i) ==
  IF i > Len(sortedTweets) THEN << >>
  ELSE CompareFrom(sortedTweets, i, i) \o CompareAllFromSelf(sortedTweets, i + 1)

\* the outer loop of findContradictions, from i on
RECURSIVE CompareAllFrom(_, _)
CompareAllFrom(sortedTweets, i) ==
  IF i > Len(sortedTweets) THEN << >>
  ELSE CompareFrom(sortedTweets, i, i + 1) \o CompareAllFrom(sortedTweets, i + 1)

findContradictions(tweets) == CompareAllFrom(SortNewestFirst(tweets), 1)

(* --------------------- what the post source returns ------------------- *)
\* the two posts of the end-to-end scenario
BuyTweet ==
  [id |-> "t1",
   text |-> <<"B","i","t","c","o","i","n"," ","t","o"," ","t","h","e"," ",
              "m","o","o","n",","," ","b","u","y"," ","n","o","w">>,
   timestamp |-> 1,
   metrics |-> [likes |-> 200, retweets |-> 0, replies |-> 0]]

SellTweet ==
  [id |-> "t2",
   text |-> <<"b","i","t","c","o","i","n"," ","i","s"," ","c","r","a","s","h",
              "i","n","g",","," ","s","e","l","l"," ","e","v","e","r","y","t",
              "h","i","n","g">>,
   timestamp |-> 2,
   metrics |-> [likes |-> 50, retweets |-> 0, replies |-> 0]]

PumpTweet ==
  [id |-> "t3",
   text |-> <<"P","u","m","p"," ","i","t">>,
   timestamp |-> 3,
   metrics |-> [likes |-> 10]]

LoveTweet ==
  [id |-> "t4",
   text |-> <<"L","o","v","e"," ","T","e","s","l","a">>,
   timestamp |-> 1]

HateTweet ==
  [id |-> "t5",
   text |-> <<"h","a","t","e"," ","t","e","s","l","a">>,
   timestamp |-> 2,
   metrics |-> [likes |-> 60, retweets |-> 41]]

\* the tweet of createMockTwitterClient
MockTweet ==
  [id |-> "mock_tweet",
   text |-> <<"S","a","m","p","l","e"," ","t","w","e","e","t">>,
   timestamp |-> 1,
   metrics |-> [likes |-> 100, retweets |-> 50, replies |-> 20]]

\* the responses getUserTweets resolves with in the model: the mock's single
\* tweet, the sentiment pair of the scenario, a topic pair, three posts that
\* flip twice, no tweets, data without a tweets field, and no data at all
Responses ==
  << [data |-> [tweets |-> <<MockTweet>>]],
     [data |-> [tweets |-> <<BuyTweet, SellTweet>>]],
     [data |-> [tweets |-> <<LoveTweet, HateTweet>>]],
     [data |-> [tweets |-> <<SellTweet, PumpTweet, BuyTweet>>]],
     [data |-> [tweets |-> << >>]],
     [data |-> [cursor |-> ""]],
     [status |-> "error"] >>

\* response.data?.tweets || []
TweetsOf(response) ==
  IF "data" \in DOMAIN response
    THEN (IF "tweets" \in DOMAIN response.data THEN response.data.tweets ELSE << >>)
    ELSE << >>

\* findContradictions on each response, computed once
Found == [r \in 1..Len(Responses) |-> findContradictions(TweetsOf(Responses[r]))]

(* ------------------------------- dates -------------------------------- *)
\* new Date(t).toISOString(): an ISO string, to the millisecond
toISOString(t) == [iso |-> t]
\* new Date(isoString).getTime()
getTime(d) == d.iso

(* ------------------------------- state -------------------------------- *)
\* options.trackedAccounts of the instances under test
OneAccount == << <<"@","x">> >>
TwoAccounts == << <<"@","x">>, <<"@","y">> >>

\* invocations of check() that may be in flight at once
Runs == {1, 2}

\* Math.random().toString(36).substr(2, 9), from a two-element range
RandomSuffix == {"r0", "r1"}
\* the suffix the sweeps below draw every time: the id plays no part in the
\* gate, in what is written or in what check() returns
FixedSuffix == {"r0"}

VARIABLES
  options,          \* the options the instance is constructed with
  now,              \* Date.now()
  alertsFile,       \* contradiction-alerts.json: [state, data]
  trackedAccounts,  \* this.trackedAccounts
  run,              \* per invocation of check(): its position and locals
  result,           \* per invocation: how the promise of check() settled
  sent,             \* the alerts handed to sendAlertsToSubscribers, in order
  console,          \* per invocation: what console.error printed
  trace,            \* per invocation: what it fetched and when it ran the gate
  sweeps,           \* number of check() calls so far
  restored,         \* the alerts on file when the process last restarted
  input,            \* the tweets a direct call of the detector is given
  last,             \* the last direct call of a method: [op, arg, returned]
  subscribersFile,  \* subscribers.json: the array SubscriberManager stores
  added,            \* the {id, email} of every addSubscriber that returned
  app,              \* the AlphaSignal instance: its init() calls and cron jobs
  metrics,          \* AnalyticsService: this.metrics
  tracked           \* number of trackError calls so far

vars == <<options, now, alertsFile, trackedAccounts, run, result, sent, console,
          trace, sweeps, restored, input, last, subscribersFile, added, app,
          metrics, tracked>>

\* the instance of ContradictionAlerts, its file and its sweeps
sweepVars == <<options, now, alertsFile, trackedAccounts, run, result, sent,
               console, trace, sweeps, restored>>

\* what a sweep of check() neither reads nor writes
otherVars == <<input, last, subscribersFile, added, app, metrics, tracked>>

FileOk(alerts) == [state |-> "ok", data |-> alerts]
FileCorrupt == [state |-> "corrupt", data |-> << >>]
FileMissing == [state |-> "missing", data |-> << >>]

IdleRun ==
  [pc |-> "idle", cursor |-> 0, account |-> << >>, allContradictions |-> << >>,
   contradictions |-> << >>, alerts |-> << >>, newAlerts |-> << >>]

NoTrace ==
  [fetched |-> << >>, gateAt |-> -1, loaded |-> << >>, loadFailed |-> FALSE,
   written |-> FALSE, handed |-> 0]

\* no method has been called directly yet
NoCall == [op |-> "none", arg |-> << >>, returned |-> << >>]

Unsettled == [status |-> "none", value |-> << >>]
Resolved(v) == [status |-> "resolved", value |-> v]
Rejected == [status |-> "rejected", value |-> << >>]

\* config/cron-schedule.json as scheduleJobs reads it: a job that runs the
\* contradiction check, a job whose payload kind executeJob does not know,
\* and a job that is switched off
cronConfig ==
  [jobs |->
     << [name |-> "contradiction-check", enabled |-> TRUE,
         schedule |-> [expr |-> "*/30 * * * 1-5"],
         payload |-> [kind |-> "agentTurn",
                      message |-> <<"R","u","n"," ","c","o","n","t","r","a",
                                    "d","i","c","t","i","o","n"," ","c","h",
                                    "e","c","k">>]],
        [name |-> "health-ping", enabled |-> TRUE,
         schedule |-> [expr |-> "0 * * * *"],
         payload |-> [kind |-> "systemEvent",
                      message |-> <<"p","i","n","g">>]],
        [name |-> "data-backup", enabled |-> FALSE,
         schedule |-> [expr |-> "0 2 * * *"],
         payload |-> [kind |-> "agentTurn",
                      message |-> <<"b","a","c","k","u","p">>]] >>]

\* new AlphaSignal(): the constructor has called init() and not awaited it;
\* nothing is scheduled yet and no callback has run
NewAlphaSignal ==
  [called |-> {"constructor"}, pending |-> {"constructor"},
   scheduled |-> << >>, fired |-> {}, escaped |-> FALSE]

\* new AnalyticsService(): this.metrics, of which the error list is kept
NewMetrics == [errors |-> << >>]

\* the constructor, given the accounts to track, followed by init() on a
\* fresh data directory
Construct(accounts) ==
  /\ options = [trackedAccounts |-> accounts]
  /\ now = 0
  /\ alertsFile = FileOk(<< >>)
  /\ trackedAccounts = accounts
  /\ run = [p \in Runs |-> IdleRun]
  /\ result = [p \in Runs |-> Unsettled]
  /\ sent = << >>
  /\ console = [p \in Runs |-> {}]
  /\ trace = [p \in Runs |-> NoTrace]
  /\ sweeps = 0
  /\ restored = << >>
  /\ last = NoCall
  /\ subscribersFile = << >>
  /\ added = {}
  /\ app = NewAlphaSignal
  /\ metrics = NewMetrics
  /\ tracked = 0

Init == Construct(OneAccount) /\ input = << >>
InitWide == Construct(TwoAccounts) /\ input = << >>

(* ---------------------------- the gate -------------------------------- *)
\* recentAlert without the time window: any earlier alert of the key counts
recentAlertNoWindow(alerts, contradiction, t) ==
  \E k \in 1..Len(alerts) :
    /\ alerts[k].account = contradiction.account
    /\ alerts[k].type = contradiction.type

\* recentAlert keyed by the account alone: an alert of another type counts
recentAlertAnyType(alerts, contradiction, t) ==
  \E k \in 1..Len(alerts) :
    /\ alerts[k].account = contradiction.account
    /\ t - getTime(alerts[k].detectedAt) < alertCooldown

\* alerts.find(alert => alert.account === contradiction.account &&
\*   alert.type === contradiction.type &&
\*   Date.now() - new Date(alert.detectedAt).getTime() < this.alertCooldown)
recentAlert(alerts, contradiction, t) ==
  \E k \in 1..Len(alerts) :
    /\ alerts[k].account = contradiction.account
    /\ alerts[k].type = contradiction.type
    /\ t - getTime(alerts[k].detectedAt) < alertCooldown

\* { id: `alert_${Date.now()}_${random}`, ...contradiction, createdAt }
NewAlert(contradiction, t, suffix) ==
  [createdAt |-> toISOString(t)] @@ contradiction
    @@ [id |-> <<"alert", t, suffix>>]

\* the loop of processAlerts from candidate k on; the loop does not await,
\* so every Date.now() in it reads the same t; rnd[k] is the random suffix
\* drawn for candidate k
RECURSIVE Gate(_, _, _, _, _, _)
Gate(contradictions, k, alerts, newAlerts, t, rnd) ==
  IF k > Len(contradictions)
    THEN [alerts |-> alerts, newAlerts |-> newAlerts]
  ELSE IF ~recentAlert(alerts, contradictions[k], t)
    THEN LET alert == NewAlert(contradictions[k], t, rnd[k])
         IN  Gate(contradictions, k + 1, Append(alerts, alert),
                  Append(newAlerts, alert), t, rnd)
  ELSE Gate(contradictions, k + 1, alerts, newAlerts, t, rnd)

(* --------------------------- checkAccount ----------------------------- *)
\* contradictions.map(c => ({ ...c, account: username, detectedAt: now }))
Stamp(contradictions, username, t) ==
  [k \in 1..Len(contradictions) |->
     [account |-> username, detectedAt |-> toISOString(t)] @@ contradictions[k]]

\* checkAccount(username) once getUserTweets has resolved with Responses[r]
checkAccount(username, r, t) ==
  LET tweets == TweetsOf(Responses[r])
  IN  IF Len(tweets) < 2 THEN << >>
      ELSE Stamp(Found[r], username, t)

(* ------------------------------ actions ------------------------------- *)
\* the clock advances
Tick ==
  /\ now < MaxTime
  /\ now' = now + 1
  /\ UNCHANGED <<options, alertsFile, trackedAccounts, run, result, sent,
                 console, trace, sweeps, restored>>
  /\ UNCHANGED otherVars

\* check() returns or throws: the invocation is over, its locals stay readable
Settle(p, locals, outcome) ==
  /\ run' = [run EXCEPT ![p] = [locals EXCEPT !.pc = "idle"]]
  /\ result' = [result EXCEPT ![p] = outcome]

\* check() is called: the loop starts with the first tracked account and
\* calls getUserTweets for it
StartCheck(p) ==
  /\ run[p].pc = "idle"
  /\ sweeps < MaxSweeps
  /\ sweeps' = sweeps + 1
  /\ console' = [console EXCEPT ![p] = {}]
  /\ trace' = [trace EXCEPT ![p] = NoTrace]
  /\ IF trackedAccounts = << >>
       THEN Settle(p, IdleRun, Resolved(<< >>))
       ELSE /\ run' = [run EXCEPT ![p] =
                         [IdleRun EXCEPT !.pc = "fetching", !.cursor = 1,
                                         !.account = trackedAccounts[1]]]
            /\ result' = [result EXCEPT ![p] = Unsettled]
  /\ UNCHANGED <<options, now, alertsFile, trackedAccounts, sent, restored>>
  /\ UNCHANGED otherVars

\* the rest of one iteration of the loop of check(), once checkAccount has
\* returned `found` or thrown (r = 0): the error is printed, the loop moves
\* on, and after the last account check() calls processAlerts or returns
Advance(p, r, found) ==
  LET username == run[p].account
      all == run[p].allContradictions \o found
      next == run[p].cursor + 1
      locals == [run[p] EXCEPT !.allContradictions = all]
  IN  /\ console' = [console EXCEPT ![p] =
                       IF r = 0
                         THEN @ \cup {[op |-> "checkAccount", account |-> username]}
                         ELSE @]
      /\ trace' = [trace EXCEPT ![p].fetched =
                     Append(@, [account |-> username,
                                requested |-> ReplaceAt(username),
                                response |-> r, at |-> now])]
      /\ IF next <= Len(trackedAccounts)
           THEN /\ run' = [run EXCEPT ![p] =
                             [locals EXCEPT !.cursor = next,
                                            !.account = trackedAccounts[next]]]
                /\ UNCHANGED result
         ELSE IF Len(all) > 0
           THEN /\ run' = [run EXCEPT ![p] =
                             [locals EXCEPT !.pc = "loading",
                                            !.contradictions = all]]
                /\ UNCHANGED result
         ELSE Settle(p, locals, Resolved(all))

\* FetchDone without the try/catch around checkAccount: a throw ends check()
FetchDoneAbort(p, r) ==
  /\ run[p].pc = "fetching"
  /\ IF r = 0
       THEN /\ Settle(p, run[p], Rejected)
            /\ UNCHANGED <<console, trace>>
       ELSE Advance(p, r, checkAccount(run[p].account, r, now))
  /\ UNCHANGED <<options, now, alertsFile, trackedAccounts, sent, sweeps,
                 restored>>
  /\ UNCHANGED otherVars

\* getUserTweets settles for the account under the cursor: it throws (r = 0)
\* or resolves with Responses[r], and checkAccount stamps what it finds
FetchDone(p, r) ==
  /\ run[p].pc = "fetching"
  /\ Advance(p, r, IF r = 0 THEN << >> ELSE checkAccount(run[p].account, r, now))
  /\ UNCHANGED <<options, now, alertsFile, trackedAccounts, sent, sweeps,
                 restored>>
  /\ UNCHANGED otherVars

\* ReadFileDone with processAlerts saving and sending whether or not the loop
\* admitted anything
ReadFileDoneAlwaysSaves(p, ioError, suffixes) ==
  /\ run[p].pc = "loading"
  /\ \E rnd \in [1..Len(run[p].contradictions) -> suffixes] :
       LET failed == ioError \/ alertsFile.state # "ok"
           loaded == IF failed THEN << >> ELSE alertsFile.data
           g == Gate(run[p].contradictions, 1, loaded, << >>, now, rnd)
           locals == [run[p] EXCEPT !.alerts = g.alerts,
                                    !.newAlerts = g.newAlerts]
       IN  /\ console' = [console EXCEPT ![p] =
                            IF failed THEN @ \cup {[op |-> "loadAlerts"]} ELSE @]
           /\ trace' = [trace EXCEPT ![p].gateAt = now,
                                     ![p].loaded = loaded,
                                     ![p].loadFailed = failed]
           /\ run' = [run EXCEPT ![p] = [locals EXCEPT !.pc = "saving"]]
           /\ UNCHANGED result
  /\ UNCHANGED <<options, now, alertsFile, trackedAccounts, sent, sweeps,
                 restored>>
  /\ UNCHANGED otherVars

\* loadAlerts settles inside processAlerts: the file's alerts, or [] with an
\* error printed when the read or the parse fails; then the loop over the
\* candidates runs, and saveAlerts is called if it admitted any
ReadFileDone(p, ioError, suffixes) ==
  /\ run[p].pc = "loading"
  /\ \E rnd \in [1..Len(run[p].contradictions) -> suffixes] :
       LET failed == ioError \/ alertsFile.state # "ok"
           loaded == IF failed THEN << >> ELSE alertsFile.data
           g == Gate(run[p].contradictions, 1, loaded, << >>, now, rnd)
           locals == [run[p] EXCEPT !.alerts = g.alerts,
                                    !.newAlerts = g.newAlerts]
       IN  /\ console' = [console EXCEPT ![p] =
                            IF failed THEN @ \cup {[op |-> "loadAlerts"]} ELSE @]
           /\ trace' = [trace EXCEPT ![p].gateAt = now,
                                     ![p].loaded = loaded,
                                     ![p].loadFailed = failed]
           /\ IF Len(g.newAlerts) > 0
                THEN /\ run' = [run EXCEPT ![p] = [locals EXCEPT !.pc = "saving"]]
                     /\ UNCHANGED result
                ELSE Settle(p, locals, Resolved(run[p].allContradictions))
  /\ UNCHANGED <<options, now, alertsFile, trackedAccounts, sent, sweeps,
                 restored>>
  /\ UNCHANGED otherVars

\* WriteFileDone with check() returning the new alerts, not the candidates
WriteFileDoneReturnsNew(p, ioError, torn) ==
  /\ run[p].pc = "saving"
  /\ IF ~ioError
       THEN /\ ~torn
            /\ alertsFile' = FileOk(run[p].alerts)
            /\ sent' = sent \o run[p].newAlerts
            /\ trace' = [trace EXCEPT ![p].written = TRUE,
                                      ![p].handed = Len(run[p].newAlerts)]
            /\ Settle(p, run[p], Resolved(run[p].newAlerts))
            /\ UNCHANGED console
       ELSE /\ alertsFile' = IF torn THEN FileCorrupt ELSE alertsFile
            /\ console' = [console EXCEPT ![p] = @ \cup {[op |-> "saveAlerts"]}]
            /\ Settle(p, run[p], Rejected)
            /\ UNCHANGED <<sent, trace>>
  /\ UNCHANGED <<options, now, trackedAccounts, sweeps, restored>>
  /\ UNCHANGED otherVars

\* WriteFileDone with saveAlerts printing the error and not rethrowing it:
\* processAlerts goes on to sendAlertsToSubscribers
WriteFileDoneSwallow(p, ioError, torn) ==
  /\ run[p].pc = "saving"
  /\ IF ~ioError
       THEN /\ ~torn
            /\ alertsFile' = FileOk(run[p].alerts)
            /\ trace' = [trace EXCEPT ![p].written = TRUE,
                                      ![p].handed = Len(run[p].newAlerts)]
            /\ UNCHANGED console
       ELSE /\ alertsFile' = IF torn THEN FileCorrupt ELSE alertsFile
            /\ console' = [console EXCEPT ![p] = @ \cup {[op |-> "saveAlerts"]}]
            /\ trace' = [trace EXCEPT ![p].handed = Len(run[p].newAlerts)]
  /\ sent' = sent \o run[p].newAlerts
  /\ Settle(p, run[p], Resolved(run[p].allContradictions))
  /\ UNCHANGED <<options, now, trackedAccounts, sweeps, restored>>
  /\ UNCHANGED otherVars

\* saveAlerts settles: the file now holds the invocation's whole array and the
\* new alerts go to sendAlertsToSubscribers; or the write fails, the error is
\* printed and rethrown, and the file is as it was or torn
WriteFileDone(p, ioError, torn) ==
  /\ run[p].pc = "saving"
  /\ IF ~ioError
       THEN /\ ~torn
            /\ alertsFile' = FileOk(run[p].alerts)
            /\ sent' = sent \o run[p].newAlerts
            /\ trace' = [trace EXCEPT ![p].written = TRUE,
                                      ![p].handed = Len(run[p].newAlerts)]
            /\ Settle(p, run[p], Resolved(run[p].allContradictions))
            /\ UNCHANGED console
       ELSE /\ alertsFile' = IF torn THEN FileCorrupt ELSE alertsFile
            /\ console' = [console EXCEPT ![p] = @ \cup {[op |-> "saveAlerts"]}]
            /\ Settle(p, run[p], Rejected)
            /\ UNCHANGED <<sent, trace>>
  /\ UNCHANGED <<options, now, trackedAccounts, sweeps, restored>>
  /\ UNCHANGED otherVars

\* Restart with init() writing [] whether or not the file is there
RestartWipes ==
  /\ \A p \in Runs : run[p].pc = "idle"
  /\ alertsFile' = FileOk(<< >>)
  /\ trackedAccounts' = options.trackedAccounts
  /\ run' = [p \in Runs |-> IdleRun]
  /\ result' = [p \in Runs |-> Unsettled]
  /\ console' = [p \in Runs |-> {}]
  /\ trace' = [p \in Runs |-> NoTrace]
  /\ restored' = alertsFile.data
  /\ UNCHANGED <<options, now, sent, sweeps>>
  /\ UNCHANGED otherVars

\* the process is restarted between sweeps: a new instance is constructed and
\* init() runs, which writes [] only when the alerts file cannot be accessed
Restart ==
  /\ \A p \in Runs : run[p].pc = "idle"
  /\ alertsFile' = IF alertsFile = FileMissing THEN FileOk(<< >>) ELSE alertsFile
  /\ trackedAccounts' = options.trackedAccounts
  /\ run' = [p \in Runs |-> IdleRun]
  /\ result' = [p \in Runs |-> Unsettled]
  /\ console' = [p \in Runs |-> {}]
  /\ trace' = [p \in Runs |-> NoTrace]
  /\ restored' = alertsFile.data
  /\ UNCHANGED <<options, now, sent, sweeps>>
  /\ UNCHANGED otherVars

(* --------------------- the store's other methods ---------------------- *)
\* Array.prototype.slice(begin): a negative begin counts from the end of the
\* array, a begin of 0 (and so of -0) is the start of the array
Slice(array, begin) ==
  LET n == Len(array)
      from == IF begin < 0 THEN Max(n + begin, 0)
              ELSE IF begin > n THEN n ELSE begin
  IN  SubSeq(array, from + 1, n)

\* Array.prototype.reverse
Reverse(array) == [k \in 1..Len(array) |-> array[Len(array) + 1 - k]]

\* loadAlerts(): the parsed file, or [] when the read or the parse fails
loadAlerts(file) == IF file.state = "ok" THEN file.data ELSE << >>

\* getRecentAlerts(limit): alerts.slice(-limit).reverse()
getRecentAlerts(file, limit) == Reverse(Slice(loadAlerts(file), -limit))

\* getAlertsByAccount(account)
getAlertsByAccount(file, account) ==
  SelectSeq(loadAlerts(file), LAMBDA alert : alert.account = account)

\* getAlertsByType(type)
getAlertsByType(file, type) ==
  SelectSeq(loadAlerts(file), LAMBDA alert : alert.type = type)

\* the types compareTweets gives a contradiction
Types == {"sentiment-contradiction", "topic-contradiction"}

\* a method is called directly, between sweeps, and returns
Returns(op, arg, returned) ==
  /\ \A p \in Runs : run[p].pc = "idle"
  /\ last' = [op |-> op, arg |-> arg, returned |-> returned]

\* resetAlerts(): saveAlerts([])
ResetAlerts ==
  /\ Returns("resetAlerts", << >>, << >>)
  /\ alertsFile' = FileOk(<< >>)
  /\ UNCHANGED <<options, now, trackedAccounts, run, result, sent, console,
                 trace, sweeps, restored, input, subscribersFile, added, app, metrics, tracked>>

\* the three queries: each loads the file and returns a view of it
GetRecentAlerts(limit) ==
  /\ Returns("getRecentAlerts", limit, getRecentAlerts(alertsFile, limit))
  /\ UNCHANGED <<options, now, alertsFile, trackedAccounts, run, result, sent,
                 console, trace, sweeps, restored, input, subscribersFile,
                 added, app, metrics, tracked>>

GetAlertsByAccount(account) ==
  /\ Returns("getAlertsByAccount", account,
             getAlertsByAccount(alertsFile, account))
  /\ UNCHANGED <<options, now, alertsFile, trackedAccounts, run, result, sent,
                 console, trace, sweeps, restored, input, subscribersFile,
                 added, app, metrics, tracked>>

GetAlertsByType(type) ==
  /\ Returns("getAlertsByType", type, getAlertsByType(alertsFile, type))
  /\ UNCHANGED <<options, now, alertsFile, trackedAccounts, run, result, sent,
                 console, trace, sweeps, restored, input, subscribersFile,
                 added, app, metrics, tracked>>

(* ----------------------- the tracked accounts ------------------------- *)
\* the handles add and remove are called with
Handles == { <<"@","x">>, <<"@","y">>, <<"@","z">> }

\* Array.prototype.includes
ArrayIncludes(array, x) == \E k \in 1..Len(array) : array[k] = x

\* Array.prototype.indexOf, counted from 1; 0 when x is not in the array
IndexOf(array, x) ==
  IF ArrayIncludes(array, x)
    THEN CHOOSE k \in 1..Len(array) :
           array[k] = x /\ \A m \in 1..(k-1) : array[m] # x
    ELSE 0

\* addTrackedAccount pushing without looking whether the account is tracked
addTrackedAccountAlways(accounts, account) ==
  [accounts |-> Append(accounts, account), returned |-> TRUE]

\* addTrackedAccount(account): the list afterwards and what is returned
addTrackedAccount(accounts, account) ==
  IF ~ArrayIncludes(accounts, account)
    THEN [accounts |-> Append(accounts, account), returned |-> TRUE]
    ELSE [accounts |-> accounts, returned |-> FALSE]

\* removeTrackedAccount(account): splice(index, 1) at the first occurrence
removeTrackedAccount(accounts, account) ==
  LET index == IndexOf(accounts, account)
  IN  IF index # 0
        THEN [accounts |-> SubSeq(accounts, 1, index - 1)
                             \o SubSeq(accounts, index + 1, Len(accounts)),
              returned |-> TRUE]
        ELSE [accounts |-> accounts, returned |-> FALSE]

AddTrackedAccount(account) ==
  LET done == addTrackedAccount(trackedAccounts, account)
  IN  /\ Returns("addTrackedAccount", account, done.returned)
      /\ trackedAccounts' = done.accounts
      /\ UNCHANGED <<options, now, alertsFile, run, result, sent, console,
                     trace, sweeps, restored, input, subscribersFile, added, app, metrics, tracked>>

RemoveTrackedAccount(account) ==
  LET done == removeTrackedAccount(trackedAccounts, account)
  IN  /\ Returns("removeTrackedAccount", account, done.returned)
      /\ trackedAccounts' = done.accounts
      /\ UNCHANGED <<options, now, alertsFile, run, result, sent, console,
                     trace, sweeps, restored, input, subscribersFile, added, app, metrics, tracked>>

\* the lists over Handles that hold no handle twice
DuplicateFree ==
  {list \in UNION {[1..n -> Handles] : n \in 0..Cardinality(Handles)} :
     \A i, j \in 1..Len(list) : list[i] = list[j] => i = j}

\* an instance constructed with any duplicate-free options.trackedAccounts
InitRegistry ==
  /\ \E accounts \in DuplicateFree : Construct(accounts)
  /\ input = << >>

(* -------------------------- SubscriberManager ------------------------- *)
\* this.tiers: the features of each tier
tiers ==
  [free |-> [features |-> <<"weekly digest", "basic reports">>],
   pro |-> [features |-> <<"daily briefs", "contradiction alerts",
                           "watchlist monitoring">>],
   elite |-> [features |-> <<"real-time alerts", "custom research",
                             "1:1 consultations">>]]

SubscriberIds == {"u1", "u2"}
Emails == {"a@x.io", "b@x.io"}

\* what addSubscriber is called with: id and email, with a known tier, with a
\* tier that is no tier, without id, with an empty id, without email
SubscriberData ==
  {[id |-> i, email |-> e] : i \in SubscriberIds, e \in Emails}
    \cup { [id |-> "u1", email |-> "a@x.io", tier |-> "pro"],
           [id |-> "u2", email |-> "b@x.io", tier |-> "gold"],
           [email |-> "a@x.io"],
           [id |-> "", email |-> "b@x.io"],
           [id |-> "u1"] }

\* data[field] is there and truthy
Truthy(data, field) == field \in DOMAIN data /\ data[field] # ""

\* data[field] || fallback
OrElse(data, field, fallback) ==
  IF Truthy(data, field) THEN data[field] ELSE fallback

\* what a call of SubscriberManager comes to: it throws, or it returns a
\* value, and the array on file afterwards
Throws(subscribers) ==
  [threw |-> TRUE, value |-> << >>, subscribers |-> subscribers]
Gives(value, subscribers) ==
  [threw |-> FALSE, value |-> value, subscribers |-> subscribers]

\* the record addSubscriber builds
NewSubscriber(data, t) ==
  [id |-> data.id,
   email |-> data.email,
   tier |-> OrElse(data, "tier", "free"),
   joinDate |-> toISOString(t),
   lastActive |-> toISOString(t),
   deliveryPreferences |-> OrElse(data, "deliveryPreferences", <<"telegram">>),
   status |-> "active",
   features |-> IF Truthy(data, "tier") /\ data.tier \in DOMAIN tiers
                  THEN tiers[data.tier].features
                  ELSE tiers.free.features]

\* addSubscriber saving the new subscriber alone, not the array it loaded
addSubscriberFresh(subscribers, data, t) ==
  IF ~Truthy(data, "id") \/ ~Truthy(data, "email")
    THEN Throws(subscribers)
  ELSE IF \E k \in 1..Len(subscribers) :
            subscribers[k].id = data.id \/ subscribers[k].email = data.email
    THEN Throws(subscribers)
  ELSE Gives(NewSubscriber(data, t), <<NewSubscriber(data, t)>>)

\* addSubscriber pushing and saving before it looks for an existing
\* subscriber: a duplicate is rejected after it has been stored
addSubscriberSaveFirst(subscribers, data, t) ==
  IF ~Truthy(data, "id") \/ ~Truthy(data, "email")
    THEN Throws(subscribers)
  ELSE IF \E k \in 1..Len(subscribers) :
            subscribers[k].id = data.id \/ subscribers[k].email = data.email
    THEN Throws(Append(subscribers, NewSubscriber(data, t)))
  ELSE Gives(NewSubscriber(data, t), Append(subscribers, NewSubscriber(data, t)))

\* addSubscriber(subscriberData) on the array loaded from the file
addSubscriber(subscribers, data, t) ==
  IF ~Truthy(data, "id") \/ ~Truthy(data, "email")
    THEN Throws(subscribers)
  ELSE IF \E k \in 1..Len(subscribers) :
            subscribers[k].id = data.id \/ subscribers[k].email = data.email
    THEN Throws(subscribers)
  ELSE Gives(NewSubscriber(data, t), Append(subscribers, NewSubscriber(data, t)))

\* subscribers.findIndex(s => s.id === id), counted from 1; 0 for -1
FindIndex(subscribers, id) ==
  IF \E k \in 1..Len(subscribers) : subscribers[k].id = id
    THEN CHOOSE k \in 1..Len(subscribers) :
           subscribers[k].id = id /\ \A m \in 1..(k-1) : subscribers[m].id # id
    ELSE 0

\* deactivateSubscriber(id)
deactivateSubscriber(subscribers, id, t) ==
  LET index == FindIndex(subscribers, id)
      inactive == [deactivatedDate |-> toISOString(t)]
                    @@ [subscribers[index] EXCEPT !.status = "inactive"]
  IN  IF index = 0 THEN Throws(subscribers)
      ELSE Gives(inactive, [subscribers EXCEPT ![index] = inactive])

\* updateSubscriber(id, updates): { ...subscribers[index], ...updates,
\* lastUpdated }, the later spread winning
updateSubscriber(subscribers, id, updates, t) ==
  LET index == FindIndex(subscribers, id)
      updated == [lastUpdated |-> toISOString(t)] @@ updates
                   @@ subscribers[index]
  IN  IF index = 0 THEN Throws(subscribers)
      ELSE Gives(updated, [subscribers EXCEPT ![index] = updated])

\* getSubscriber(id): <<s>> for the subscriber found, <<>> for undefined
getSubscriber(subscribers, id) ==
  LET index == FindIndex(subscribers, id)
  IN  IF index = 0 THEN << >> ELSE <<subscribers[index]>>

\* a call of SubscriberManager on a file that reads and writes without error
AddSubscriber(data) ==
  LET done == addSubscriber(subscribersFile, data, now)
  IN  /\ Returns("addSubscriber", data, [threw |-> done.threw, value |-> done.value])
      /\ subscribersFile' = done.subscribers
      /\ added' = IF done.threw THEN added
                  ELSE added \cup {[id |-> data.id, email |-> data.email]}
      /\ UNCHANGED <<sweepVars, input, app, metrics, tracked>>

DeactivateSubscriber(id) ==
  LET done == deactivateSubscriber(subscribersFile, id, now)
  IN  /\ Returns("deactivateSubscriber", id,
                 [threw |-> done.threw, value |-> done.value])
      /\ subscribersFile' = done.subscribers
      /\ UNCHANGED <<sweepVars, input, added, app, metrics, tracked>>

UpdateSubscriber(id, updates) ==
  LET done == updateSubscriber(subscribersFile, id, updates, now)
  IN  /\ Returns("updateSubscriber", [id |-> id, updates |-> updates],
                 [threw |-> done.threw, value |-> done.value])
      /\ subscribersFile' = done.subscribers
      /\ UNCHANGED <<sweepVars, input, added, app, metrics, tracked>>

\* what updateSubscriber is given to merge: another email, another id
Updates == {[email |-> "a@x.io"], [id |-> "u1"]}

\* what addSubscriber is called with alongside updateSubscriber: id and
\* email, or one of the two missing
PlainData ==
  {[id |-> i, email |-> e] : i \in SubscriberIds, e \in Emails}
    \cup {[email |-> "a@x.io"], [id |-> "u1"]}

GetSubscriber(id) ==
  /\ Returns("getSubscriber", id, getSubscriber(subscribersFile, id))
  /\ UNCHANGED <<sweepVars, input, subscribersFile, added, app, metrics, tracked>>

(* ------------------- direct calls of the detector --------------------- *)
\* texts for the tweets the detector is called on: a bullish one, a bearish
\* one, one that is both, one that is neither, a topic with a positive and
\* with a negative word, two topics at once, topic and stance together, and
\* a topic with no sentiment word
Texts ==
  <<
     <<"B","u","y">>,
     <<"S","E","L","L">>,
     <<"p","u","m","p"," ","a","n","d"," ","d","u","m","p">>,
     <<"g","m">>,
     <<"l","o","v","e"," ","t","e","s","l","a">>,
     <<"h","a","t","e"," ","T","e","s","l","a">>,
     <<"l","o","v","e"," ","c","r","y","p","t","o",","," ","b","i","t","c",
       "o","i","n">>,
     <<"h","a","t","e"," ","b","i","t","c","o","i","n"," ","a","n","d"," ",
       "c","r","y","p","t","o">>,
     <<"l","o","v","e"," ","t","e","s","l","a",","," ","b","u","y">>,
     <<"h","a","t","e"," ","t","e","s","l","a",","," ","s","e","l","l">>,
     <<"t","e","s","l","a">>
  >>

Timestamps == {1, 2}

\* the metrics a tweet comes with, when it has any
MetricsSeen ==
  { [likes |-> 100, replies |-> 5],
    [likes |-> 60, retweets |-> 40],
    [likes |-> 60, retweets |-> 41] }

Tweets ==
  LET bare == {[id |-> <<k, ts>>, text |-> Texts[k], timestamp |-> ts] :
                 k \in 1..Len(Texts), ts \in Timestamps}
  IN  bare \cup {[metrics |-> m] @@ t : t \in bare, m \in MetricsSeen}

\* the detector is given two tweets
InitPair ==
  /\ Construct(OneAccount)
  /\ input \in {<<tweet1, tweet2>> : tweet1 \in Tweets, tweet2 \in Tweets}

\* the detector is given fewer than two tweets
InitShort ==
  /\ Construct(OneAccount)
  /\ input \in {<< >>} \cup {<<tweet>> : tweet \in Tweets}

\* tweets without metrics, at three times: a bullish and a bearish one, a
\* topic with a positive and with a negative word, and the two together
ListTweets ==
  {[id |-> <<k, ts>>, text |-> Texts[k], timestamp |-> ts] :
     k \in {1, 2, 5, 6, 9, 10}, ts \in {1, 2, 3}}

\* the detector is given a list of two or three tweets, in any order
InitLists ==
  /\ Construct(OneAccount)
  /\ input \in {<<a, b>> : a \in ListTweets, b \in ListTweets}
               \cup {<<a, b, c>> : a \in ListTweets, b \in ListTweets,
                                  c \in ListTweets}

CallCompareTweets ==
  /\ Len(input) = 2
  /\ Returns("compareTweets", << >>, compareTweets(input[1], input[2]))
  /\ UNCHANGED <<sweepVars, input, subscribersFile, added, app, metrics, tracked>>

CallCalculateSeverity ==
  /\ Len(input) = 2
  /\ Returns("calculateSeverity", << >>, calculateSeverity(input[1], input[2]))
  /\ UNCHANGED <<sweepVars, input, subscribersFile, added, app, metrics, tracked>>

CallFindContradictions ==
  /\ Returns("findContradictions", << >>, findContradictions(input))
  /\ UNCHANGED <<sweepVars, input, subscribersFile, added, app, metrics, tracked>>

\* checkAccount for the first tracked account, getUserTweets resolving with
\* Responses[r]
CallCheckAccount(r) ==
  /\ Returns("checkAccount", r, checkAccount(trackedAccounts[1], r, now))
  /\ UNCHANGED <<sweepVars, input, subscribersFile, added, app, metrics, tracked>>

(* ------------------- a direct call of processAlerts -------------------- *)
\* times at which a candidate of the call, or an alert already on file, was
\* detected
DetectedTimes == {0, 1}

\* candidates as checkAccount stamps them: two sentiment findings and a topic
\* finding, for either account
Candidates ==
  LET found == {Found[2][1], Found[3][1], Found[4][Len(Found[4])]}
  IN  {Stamp(<<c>>, account, t)[1] :
         c \in found, account \in {TwoAccounts[1], TwoAccounts[2]},
         t \in DetectedTimes}

\* processAlerts(contradictions) is called with one or two candidates on a
\* file that holds at most one alert, written by an earlier call at the time
\* its candidate was detected
InitGate ==
  /\ options = [trackedAccounts |-> TwoAccounts]
  /\ now = 1
  /\ alertsFile \in {FileOk(<< >>)} \cup
       {FileOk(<<NewAlert(c, getTime(c.detectedAt), "r0")>>) : c \in Candidates}
  /\ trackedAccounts = TwoAccounts
  /\ \E contradictions \in
          {<<c>> : c \in Candidates} \cup
          {pair \in Candidates \X Candidates : pair[1] # pair[2]} :
       run = [p \in Runs |->
                IF p = 1
                  THEN [IdleRun EXCEPT !.pc = "loading",
                                       !.allContradictions = contradictions,
                                       !.contradictions = contradictions]
                  ELSE IdleRun]
  /\ result = [p \in Runs |-> Unsettled]
  /\ sent = << >>
  /\ console = [p \in Runs |-> {}]
  /\ trace = [p \in Runs |-> NoTrace]
  /\ sweeps = 0
  /\ restored = << >>
  /\ input = << >>
  /\ last = NoCall
  /\ subscribersFile = << >>
  /\ added = {}
  /\ app = NewAlphaSignal
  /\ metrics = NewMetrics
  /\ tracked = 0

(* ----------------------------- AlphaSignal ---------------------------- *)
\* who calls init(): the constructor, and a caller that awaits app.init()
InitCallers == {"constructor", "caller"}

\* how the promise of a routed handler settles
Settles == {"resolved", "rejected"}

\* handleAgentTurn(payload): the handler the message routes to and how the
\* call settles, the routed handler settling as `handler`
handleAgentTurn(payload, handler) ==
  IF Includes(payload.message,
              <<"d","a","i","l","y"," ","m","a","r","k","e","t"," ","b","r",
                "i","e","f">>)
    THEN [route |-> "dailyBrief.generate", outcome |-> handler]
  ELSE IF Includes(payload.message,
                   <<"c","o","n","t","r","a","d","i","c","t","i","o","n">>)
    THEN [route |-> "contradictionAlerts.check", outcome |-> handler]
  ELSE IF Includes(payload.message, <<"b","a","c","k","u","p">>)
    THEN [route |-> "backupData", outcome |-> handler]
  ELSE [route |-> "unhandled", outcome |-> "resolved"]

\* executeJob(payload): an unknown kind throws
executeJob(payload, handler) ==
  IF payload.kind = "agentTurn"
    THEN handleAgentTurn(payload, handler)
    ELSE [route |-> "none", outcome |-> "rejected"]

\* the callback given to cron.schedule without its try/catch: a failure of
\* executeJob rejects the callback's promise, which nothing handles
cronCallbackNoCatch(job, handler) ==
  LET done == executeJob(job.payload, handler)
  IN  [route |-> done.route, failed |-> done.outcome = "rejected",
       caught |-> FALSE, escaped |-> done.outcome = "rejected"]

\* the callback given to cron.schedule for a job: executeJob is awaited inside
\* try/catch and a failure is printed
cronCallback(job, handler) ==
  LET done == executeJob(job.payload, handler)
  IN  [route |-> done.route, failed |-> done.outcome = "rejected",
       caught |-> done.outcome = "rejected", escaped |-> FALSE]

\* scheduleJobs(): one cron.schedule per enabled job of the config, added to
\* what is scheduled already; `since` is the tick of the registration
scheduleJobs(scheduled, t) ==
  LET enabled == SelectSeq(cronConfig.jobs, LAMBDA job : job.enabled)
  IN  scheduled \o [k \in 1..Len(enabled) |-> [job |-> enabled[k], since |-> t]]

\* registration k has run for the current tick
FiredNow(k) == \E f \in app.fired : f.k = k /\ f.t = now

\* app.init() is called on the instance the constructor returned
CallInit ==
  /\ "caller" \notin app.called
  /\ app' = [app EXCEPT !.called = @ \cup {"caller"},
                        !.pending = @ \cup {"caller"}]
  /\ UNCHANGED <<sweepVars, input, last, subscribersFile, added, metrics,
                 tracked>>

\* a call of init() gets past the init() of its components and runs
\* scheduleJobs
InitDone(caller) ==
  /\ caller \in app.pending
  /\ app' = [app EXCEPT !.pending = @ \ {caller},
                        !.scheduled = scheduleJobs(@, now)]
  /\ UNCHANGED <<sweepVars, input, last, subscribersFile, added, metrics,
                 tracked>>

\* the scheduler runs the callback of registration k for the current tick,
\* registrations in the order they were made; a rejection nothing handles
\* ends the process
CronCallback(k, handler) ==
  /\ ~app.escaped
  /\ k \in 1..Len(app.scheduled)
  /\ ~FiredNow(k)
  /\ \A j \in 1..(k-1) : FiredNow(j)
  /\ LET job == app.scheduled[k].job
         done == cronCallback(job, handler)
     IN  app' = [app EXCEPT
                   !.fired = @ \cup {[k |-> k, t |-> now, job |-> job.name,
                                      route |-> done.route,
                                      failed |-> done.failed,
                                      caught |-> done.caught]},
                   !.escaped = @ \/ done.escaped]
  /\ UNCHANGED <<sweepVars, input, last, subscribersFile, added, metrics,
                 tracked>>

\* the next tick of the schedule comes once every callback of this one has
\* been run
CronTick ==
  /\ \A k \in 1..Len(app.scheduled) : FiredNow(k)
  /\ Tick

(* -------------------------- AnalyticsService -------------------------- *)
\* trackError keeping the first records of the list when it is full
trackErrorKeepsFirst(current, error, context, t) ==
  LET errorRecord == [timestamp |-> toISOString(t), message |-> error.message,
                      stack |-> error.stack, context |-> context]
      pushed == Append(current.errors, errorRecord)
  IN  [current EXCEPT !.errors =
         IF Len(pushed) > ErrorsKept THEN SubSeq(pushed, 1, ErrorsKept)
         ELSE pushed]

\* trackError(error, context) up to its await: this.metrics afterwards
trackError(current, error, context, t) ==
  LET errorRecord == [timestamp |-> toISOString(t), message |-> error.message,
                      stack |-> error.stack, context |-> context]
      pushed == Append(current.errors, errorRecord)
  IN  [current EXCEPT !.errors =
         IF Len(pushed) > ErrorsKept THEN Slice(pushed, -ErrorsKept)
         ELSE pushed]

\* the n-th call of trackError reports error number n; saveMetrics then
\* resolves or rejects, and with it the call
TrackError(saved) ==
  /\ tracked < MaxErrors
  /\ LET error == [message |-> tracked + 1, stack |-> "Error"]
     IN  /\ metrics' = trackError(metrics, error, << >>, now)
         /\ Returns("trackError", error, [threw |-> ~saved])
  /\ tracked' = tracked + 1
  /\ UNCHANGED <<sweepVars, input, subscribersFile, added, app>>

(* --------------------------- specifications --------------------------- *)
\* sweeps one after the other, on a store that reads and writes without error
Next ==
  \/ Tick
  \/ Restart
  \/ StartCheck(1)
  \/ \E r \in 0..Len(Responses) : FetchDone(1, r)
  \/ ReadFileDone(1, FALSE, FixedSuffix)
  \/ WriteFileDone(1, FALSE, FALSE)

Spec == Init /\ [][Next]_vars

\* one sweep over two tracked accounts, on the same store
NextWide ==
  \/ Tick
  \/ (sweeps < MaxWideSweeps /\ StartCheck(1))
  \/ \E r \in 0..Len(Responses) : FetchDone(1, r)
  \/ ReadFileDone(1, FALSE, FixedSuffix)
  \/ WriteFileDone(1, FALSE, FALSE)

SpecWide == InitWide /\ [][NextWide]_vars

\* check() may be called again while an earlier call has not returned
NextConc ==
  \/ Tick
  \/ \E p \in Runs : StartCheck(p)
  \/ \E p \in Runs : \E r \in 0..Len(Responses) : FetchDone(p, r)
  \/ \E p \in Runs : ReadFileDone(p, FALSE, FixedSuffix)
  \/ \E p \in Runs : WriteFileDone(p, FALSE, FALSE)

SpecConc == Init /\ [][NextConc]_vars

\* sweeps one after the other, on a store whose reads and writes may fail
NextFail ==
  \/ Tick
  \/ Restart
  \/ StartCheck(1)
  \/ \E r \in 0..Len(Responses) : FetchDone(1, r)
  \/ \E ioError \in BOOLEAN : ReadFileDone(1, ioError, FixedSuffix)
  \/ \E ioError \in BOOLEAN : \E torn \in BOOLEAN : WriteFileDone(1, ioError, torn)

SpecFail == Init /\ [][NextFail]_vars

\* one sweep over two tracked accounts, for what it is bound to do in the
\* end: a read or a write of the alerts file that has been started completes,
\* while checkAccount awaits getUserTweets with no timer of its own, so that
\* nothing but an answer of the post source ends a fetch, and no answer is
\* promised
SpecHang ==
  /\ InitWide
  /\ [][NextWide]_vars
  /\ WF_vars(ReadFileDone(1, FALSE, FixedSuffix))
  /\ WF_vars(WriteFileDone(1, FALSE, FALSE))

\* sweeps one after the other on a reliable store, with the store's queries
\* and resetAlerts called between them
NextStore ==
  \/ Tick
  \/ Restart
  \/ StartCheck(1)
  \/ \E r \in 0..Len(Responses) : FetchDone(1, r)
  \/ ReadFileDone(1, FALSE, FixedSuffix)
  \/ WriteFileDone(1, FALSE, FALSE)
  \/ ResetAlerts
  \/ \E limit \in 0..MaxLimit : GetRecentAlerts(limit)
  \/ \E k \in 1..Len(options.trackedAccounts) :
       GetAlertsByAccount(options.trackedAccounts[k])
  \/ \E type \in Types : GetAlertsByType(type)

SpecStore == Init /\ [][NextStore]_vars

\* compareTweets, calculateSeverity and findContradictions on two tweets
NextDetect ==
  \/ CallCompareTweets
  \/ CallCalculateSeverity
  \/ CallFindContradictions

SpecDetect == InitPair /\ [][NextDetect]_vars

\* findContradictions and checkAccount on fewer than two tweets
NextShort ==
  \/ CallFindContradictions
  \/ \E r \in 1..Len(Responses) : CallCheckAccount(r)

SpecShort == InitShort /\ [][NextShort]_vars

\* accounts are added to and removed from the tracked list
NextRegistry ==
  \/ \E account \in Handles : AddTrackedAccount(account)
  \/ \E account \in Handles : RemoveTrackedAccount(account)

SpecRegistry == InitRegistry /\ [][NextRegistry]_vars

\* subscribers are added, deactivated and looked up, one call after another
NextSubscribers ==
  \/ Tick
  \/ \E data \in SubscriberData : AddSubscriber(data)
  \/ \E id \in SubscriberIds : DeactivateSubscriber(id)
  \/ \E id \in SubscriberIds : GetSubscriber(id)

SpecSubscribers == Init /\ [][NextSubscribers]_vars

\* processAlerts called directly, on a store that reads and writes without
\* error, the clock running while its reads and writes are in flight
NextGate ==
  \/ Tick
  \/ ReadFileDone(1, FALSE, RandomSuffix)
  \/ WriteFileDone(1, FALSE, FALSE)

SpecGate == InitGate /\ [][NextGate]_vars

\* the detector called on lists of two or three tweets
NextLists ==
  \/ CallCompareTweets
  \/ CallFindContradictions

SpecLists == InitLists /\ [][NextLists]_vars

\* addSubscriber, updateSubscriber and deactivateSubscriber in any order, on
\* a file that reads and writes without error and starts empty
NextUpdates ==
  \/ (Len(subscribersFile) < MaxSubscribers
        /\ \E data \in PlainData : AddSubscriber(data))
  \/ \E id \in SubscriberIds : \E updates \in Updates :
       UpdateSubscriber(id, updates)
  \/ \E id \in SubscriberIds : DeactivateSubscriber(id)

SpecUpdates == Init /\ [][NextUpdates]_vars

\* the application: init() from the constructor and from a caller, and the
\* scheduler running the registered callbacks tick after tick
NextApp ==
  \/ CallInit
  \/ \E caller \in InitCallers : InitDone(caller)
  \/ \E k \in 1..(2 * Len(cronConfig.jobs)) : \E handler \in Settles :
       CronCallback(k, handler)
  \/ CronTick

SpecApp == Init /\ [][NextApp]_vars

\* errors reported to the analytics service one after the other
NextErrors == \E saved \in BOOLEAN : TrackError(saved)

SpecErrors == Init /\ [][NextErrors]_vars

(* ------------------------- reading the state -------------------------- *)
Range(s) == {s[i] : i \in DOMAIN s}

\* same account and same type
SameKey(a, c) == a.account = c.account /\ a.type = c.type

\* alert a was built from candidate c: it carries every field of c
FromCandidate(a, c) ==
  /\ DOMAIN c \subseteq DOMAIN a
  /\ \A f \in DOMAIN c : a[f] = c[f]

\* invocation p of check() has returned or thrown
Settled(p) == run[p].pc = "idle" /\ result[p].status # "none"

\* invocation p has run the loop of processAlerts
GateRan(p) == trace[p].gateAt >= 0

\* what the file holds beyond what invocation p loaded from it
Appended(p) ==
  SubSeq(alertsFile.data, Len(trace[p].loaded) + 1, Len(alertsFile.data))

\* clock reading of an alert's detectedAt and createdAt
DetectedAt(a) == getTime(a.detectedAt)
CreatedAt(a) == getTime(a.createdAt)

(* ------------------------------- claims ------------------------------- *)
\* C1: of two candidates with the same account and type, the second is not
\* persisted when the gate examines it less than alertCooldown after the
\* detectedAt of the alert persisted for the first, and is persisted when it
\* examines it more than alertCooldown after every such alert; a sweep whose
\* candidates all have a stored alert of their key inside the cooldown
\* persists and sends nothing.
C1_CooldownPair ==
  \A p \in Runs :
    (Settled(p) /\ GateRan(p)) =>
      LET cs == run[p].contradictions
          t == trace[p].gateAt
          loaded == trace[p].loaded
          new == Appended(p)
          persisted(k) == \E i \in 1..Len(new) : FromCandidate(new[i], cs[k])
          prior(k) ==
            {a \in Range(loaded) : SameKey(a, cs[k])}
              \cup {a \in Range(new) :
                      /\ SameKey(a, cs[k])
                      /\ \E j \in 1..(k-1) : FromCandidate(a, cs[j])}
          inside(a) == t - DetectedAt(a) < alertCooldown
          beyond(a) == t - DetectedAt(a) > alertCooldown
      IN  /\ \A k \in 1..Len(cs) :
               (\E a \in prior(k) : inside(a)) => ~persisted(k)
          /\ \A k \in 1..Len(cs) :
               (prior(k) # {} /\ \A a \in prior(k) : beyond(a)) => persisted(k)
          /\ (\A k \in 1..Len(cs) :
                \E a \in Range(loaded) : SameKey(a, cs[k]) /\ inside(a))
               => (alertsFile.data = loaded /\ trace[p].handed = 0)

\* C1 witness: a second sweep found two candidates of a key that already had
\* an alert on file; the first came after the cooldown and was persisted, the
\* second fell inside the cooldown of that new alert and was not
C1_Witness ==
  /\ Settled(1) /\ GateRan(1)
  /\ Len(trace[1].loaded) = 1
  /\ Len(run[1].contradictions) = 2
  /\ SameKey(run[1].contradictions[1], run[1].contradictions[2])
  /\ SameKey(trace[1].loaded[1], run[1].contradictions[1])
  /\ trace[1].gateAt - DetectedAt(trace[1].loaded[1]) > alertCooldown
  /\ Len(alertsFile.data) = 2
  /\ FromCandidate(alertsFile.data[2], run[1].contradictions[1])

\* C2: no two alerts of one account and type that were persisted and handed
\* to sendAlertsToSubscribers have createdAt values less than alertCooldown
\* apart.
C2_CreatedApart ==
  \A i, j \in 1..Len(sent) :
    (i < j /\ SameKey(sent[i], sent[j]))
      => Abs(CreatedAt(sent[j]) - CreatedAt(sent[i])) >= alertCooldown

\* C3: two interleaved runs never both admit and send an alert for the same
\* account and type inside one cooldown window: of two such alerts, one was
\* examined at least alertCooldown after the other's detectedAt.
C3_AtomicGate ==
  \A i, j \in 1..Len(sent) :
    (i # j /\ SameKey(sent[i], sent[j]))
      => \/ CreatedAt(sent[j]) - DetectedAt(sent[i]) >= alertCooldown
         \/ CreatedAt(sent[i]) - DetectedAt(sent[j]) >= alertCooldown

\* C4: once every run has completed, every alert a run admitted and wrote is
\* in the alert store.
C4_NoLostAlert ==
  (\A p \in Runs : run[p].pc = "idle")
    => \A i \in 1..Len(sent) : sent[i] \in Range(alertsFile.data)

\* C5: at most one check() sweep is running at any time.
C5_OneSweep == Cardinality({p \in Runs : run[p].pc # "idle"}) <= 1

\* what checkAccount returned for the accounts fetched, from the k-th on
RECURSIVE FoundBy(_, _)
FoundBy(fetched, k) ==
  IF k > Len(fetched) THEN << >>
  ELSE (IF fetched[k].response = 0 THEN << >>
        ELSE checkAccount(fetched[k].account, fetched[k].response, fetched[k].at))
       \o FoundBy(fetched, k + 1)

\* C6: whichever getUserTweets calls throw, check() resolves, every tracked
\* account has been fetched (each throw printed), and the contradictions of
\* the accounts that did not throw are all in the result and were passed to
\* processAlerts.
C6_FetchFailureIsolated ==
  \A p \in Runs :
    Settled(p) =>
      LET fetched == trace[p].fetched
      IN  /\ result[p].status = "resolved"
          /\ [k \in 1..Len(fetched) |-> fetched[k].account] = trackedAccounts
          /\ \A k \in 1..Len(fetched) :
               fetched[k].response = 0
                 <=> [op |-> "checkAccount", account |-> fetched[k].account]
                       \in console[p]
          /\ result[p].value = FoundBy(fetched, 1)
          /\ result[p].value # << >>
               => (GateRan(p) /\ run[p].contradictions = result[p].value)

\* C6 witness: the first account's fetch threw, the second account's
\* contradictions were returned and went through processAlerts
C6_Witness ==
  /\ Settled(1)
  /\ Len(trace[1].fetched) = 2
  /\ trace[1].fetched[1].response = 0
  /\ trace[1].fetched[2].response # 0
  /\ result[1].value # << >>
  /\ GateRan(1)
  /\ Len(sent) > 0

C8_HistorySurvivesRestart ==
  /\ Len(restored) <= Len(alertsFile.data)
  /\ SubSeq(alertsFile.data, 1, Len(restored)) = restored
  /\ \A p \in Runs :
       (Settled(p) /\ GateRan(p)) =>
         \A k \in 1..Len(run[p].contradictions) :
           (\E a \in Range(restored) :
              /\ SameKey(a, run[p].contradictions[k])
              /\ trace[p].gateAt - DetectedAt(a) < alertCooldown)
             => \A i \in 1..Len(Appended(p)) :
                  ~FromCandidate(Appended(p)[i], run[p].contradictions[k])

\* C8 witness: a sweep after a restart whose candidate was suppressed by an
\* alert persisted before the restart
C8_Witness ==
  /\ restored # << >>
  /\ Settled(1) /\ GateRan(1)
  /\ run[1].newAlerts = << >>
  /\ \E a \in Range(restored) :
       /\ SameKey(a, run[1].contradictions[1])
       /\ trace[1].gateAt - DetectedAt(a) < alertCooldown
  /\ alertsFile.data = restored

\* C9: when the alert store cannot be read or parsed, the sweep fails: no
\* candidate is admitted on the empty history, nothing is written over the
\* stored collection, and check() does not resolve.
C9_LoadFailureIsFatal ==
  \A p \in Runs :
    trace[p].loadFailed =>
      /\ run[p].newAlerts = << >>
      /\ ~trace[p].written
      /\ trace[p].handed = 0
      /\ Settled(p) => result[p].status = "rejected"

\* C10: when saveAlerts fails the error is printed, check() rejects and none
\* of the batch is handed to sendAlertsToSubscribers; alerts are handed over
\* only once the write of the array that holds them has succeeded.
C10_SaveFailurePropagates ==
  \A p \in Runs :
    /\ (Settled(p) /\ run[p].newAlerts # << >> /\ ~trace[p].written)
         => /\ [op |-> "saveAlerts"] \in console[p]
            /\ result[p].status = "rejected"
            /\ trace[p].handed = 0
    /\ trace[p].handed > 0
         => /\ trace[p].written
            /\ trace[p].handed = Len(run[p].newAlerts)
            /\ alertsFile = FileOk(run[p].alerts)
            /\ \A i \in 1..Len(run[p].newAlerts) :
                 /\ run[p].newAlerts[i] \in Range(alertsFile.data)
                 /\ sent[Len(sent) - Len(run[p].newAlerts) + i]
                      = run[p].newAlerts[i]

\* C10 witness: the write of an admitted batch failed
C10_Witness ==
  /\ Settled(1)
  /\ run[1].newAlerts # << >>
  /\ ~trace[1].written
  /\ result[1].status = "rejected"
  /\ [op |-> "saveAlerts"] \in console[1]

\* C11: the alert store is append-only: whatever public operation runs, the
\* alerts on file before it are still on file after it, in the same places
\* and with the same fields.
C11_AppendOnly ==
  [][/\ Len(alertsFile.data) <= Len(alertsFile'.data)
     /\ SubSeq(alertsFile'.data, 1, Len(alertsFile.data)) = alertsFile.data]_vars

\* C12: check() eventually returns: a sweep that has been started ends, also
\* when the post source never answers the fetch for one of the accounts.
C12_CheckReturns ==
  \A p \in Runs : (run[p].pc # "idle") ~> (run[p].pc = "idle")

\* what the code makes of a tweet's text
Bullish(tweet) == SomeIncluded(bullishTerms, toLowerCase(tweet.text))
Bearish(tweet) == SomeIncluded(bearishTerms, toLowerCase(tweet.text))
BullishOnly(tweet) == Bullish(tweet) /\ ~Bearish(tweet)
BearishOnly(tweet) == Bearish(tweet) /\ ~Bullish(tweet)
Mentions(tweet, k) == Includes(toLowerCase(tweet.text), keywords[k])
Score(tweet) == assessSentiment(toLowerCase(tweet.text))

\* one of the two is bullish only and the other bearish only
StancesDisagree(a, b) ==
  \/ BullishOnly(a) /\ BearishOnly(b)
  \/ BearishOnly(a) /\ BullishOnly(b)

\* compareTweets takes its sentiment branch on the two
SentimentBranch(a, b) ==
  \/ Bullish(a) /\ Bearish(b)
  \/ Bearish(a) /\ Bullish(b)

\* the two have non-zero scores of opposite signs
ScoresOppose(a, b) ==
  /\ Score(a) # 0
  /\ Score(b) # 0
  /\ Sign(Score(a)) # Sign(Score(b))

\* C13: for two tweets of which one matches only bullish terms and the other
\* only bearish terms, findContradictions returns exactly one candidate, of
\* type sentiment-contradiction, for the two of them, whichever comes first
\* in the input and whichever is newer.
C13_SentimentPairFound ==
  (last.op = "findContradictions" /\ Len(input) = 2
     /\ StancesDisagree(input[1], input[2]))
    => /\ Len(last.returned) = 1
       /\ last.returned[1].type = "sentiment-contradiction"
       /\ {last.returned[1].tweet1, last.returned[1].tweet2}
            = {TweetRef(input[1]), TweetRef(input[2])}

\* C13 witness: the bearish tweet comes first in the input and is the older
\* one, and the pair was found
C13_Witness ==
  /\ last.op = "findContradictions"
  /\ Len(input) = 2
  /\ BearishOnly(input[1]) /\ BullishOnly(input[2])
  /\ input[1].timestamp < input[2].timestamp
  /\ Len(last.returned) = 1
  /\ last.returned[1].type = "sentiment-contradiction"
  /\ last.returned[1].tweet2 = TweetRef(input[1])

\* C14: compareTweets returns a sentiment candidate only if one text is
\* bullish only and the other bearish only.
C14_SentimentOnlyIfDisagree ==
  (/\ last.op = "compareTweets"
   /\ last.returned # << >>
   /\ last.returned[1].type = "sentiment-contradiction")
    => StancesDisagree(input[1], input[2])

\* C15 as claimed: for every keyword both tweets mention, when their scores
\* are non-zero and of opposite signs compareTweets returns a topic candidate
\* whose keyword is that keyword.
C15_TopicFound ==
  last.op = "compareTweets" =>
    \A k \in 1..Len(keywords) :
      (Mentions(input[1], k) /\ Mentions(input[2], k)
         /\ ScoresOppose(input[1], input[2]))
        => /\ Len(last.returned) = 1
           /\ last.returned[1].type = "topic-contradiction"
           /\ last.returned[1].keyword = keywords[k]

\* C15 as amended: when both tweets mention some keyword and their scores are
\* non-zero and of opposite signs, compareTweets returns a candidate: the
\* sentiment candidate when one text matches a bullish and the other a
\* bearish term, and otherwise a topic candidate that names the first keyword
\* of the list that both mention and carries the two scores.
C15_TopicFoundFirst ==
  last.op = "compareTweets" =>
    LET common == {k \in 1..Len(keywords) :
                     Mentions(input[1], k) /\ Mentions(input[2], k)}
    IN  (common # {} /\ ScoresOppose(input[1], input[2]))
          => /\ Len(last.returned) = 1
             /\ IF SentimentBranch(input[1], input[2])
                  THEN last.returned[1].type = "sentiment-contradiction"
                  ELSE /\ last.returned[1].type = "topic-contradiction"
                       /\ \E k \in common :
                            /\ \A m \in common : k <= m
                            /\ last.returned[1].keyword = keywords[k]
                       /\ last.returned[1].sentiment1 = Score(input[1])
                       /\ last.returned[1].sentiment2 = Score(input[2])

\* C15 witness: two tweets that both mention bitcoin and crypto, with scores
\* of opposite signs: the candidate names bitcoin
C15_Witness ==
  /\ last.op = "compareTweets"
  /\ Cardinality({k \in 1..Len(keywords) :
                    Mentions(input[1], k) /\ Mentions(input[2], k)}) > 1
  /\ ScoresOppose(input[1], input[2])
  /\ Len(last.returned) = 1
  /\ last.returned[1].type = "topic-contradiction"
  /\ last.returned[1].keyword = keywords[1]

\* likes and retweets as the claim counts them: 0 for a tweet without metrics
\* and for a count the metrics do not hold
Count(tweet, field) ==
  IF "metrics" \notin DOMAIN tweet THEN 0
  ELSE IF field \notin DOMAIN tweet.metrics THEN 0
  ELSE tweet.metrics[field]

Reach(tweet) == Count(tweet, "likes") + Count(tweet, "retweets")

\* C16: calculateSeverity returns "high" when the larger of likes + retweets
\* of the two tweets exceeds 100, and "medium" otherwise; every candidate
\* compareTweets returns carries that severity.
C16_Severity ==
  /\ last.op = "calculateSeverity" =>
       /\ (Reach(input[1]) > 100 \/ Reach(input[2]) > 100)
            => last.returned = "high"
       /\ (Reach(input[1]) <= 100 /\ Reach(input[2]) <= 100)
            => last.returned = "medium"
  /\ (last.op = "compareTweets" /\ last.returned # << >>) =>
       (last.returned[1].severity = "high"
          <=> (Reach(input[1]) > 100 \/ Reach(input[2]) > 100))

\* C16 witness: one tweet has no metrics, the other reaches exactly 100 with a
\* count missing, and the severity is medium
C16_Witness ==
  /\ last.op = "calculateSeverity"
  /\ "metrics" \notin DOMAIN input[1]
  /\ "metrics" \in DOMAIN input[2]
  /\ "retweets" \notin DOMAIN input[2].metrics
  /\ Reach(input[2]) = 100
  /\ last.returned = "medium"

\* C17: on fewer than two tweets findContradictions returns an empty list,
\* and so does checkAccount when the response holds fewer than two tweets, no
\* tweets field or no data.
C17_ShortIsEmpty ==
  /\ (last.op = "findContradictions" /\ Len(input) < 2)
       => last.returned = << >>
  /\ (last.op = "checkAccount" /\ Len(TweetsOf(Responses[last.arg])) < 2)
       => last.returned = << >>

\* C17 witness: a single tweet that is bullish and bearish at once went
\* through findContradictions
C17_Witness ==
  /\ last.op = "findContradictions"
  /\ Len(input) = 1
  /\ Bullish(input[1]) /\ Bearish(input[1])
  /\ last.returned = << >>

\* C18: for every limit >= 0 and every n alerts on file, getRecentAlerts(limit)
\* returns the min(limit, n) alerts appended last, the newest first, and
\* leaves the file as it was.
C18_RecentNewestFirst ==
  [][\A limit \in 0..MaxLimit :
       GetRecentAlerts(limit) =>
         LET n == Len(alertsFile.data)
             m == IF limit < n THEN limit ELSE n
         IN  /\ last'.returned = [k \in 1..m |-> alertsFile.data[n + 1 - k]]
             /\ alertsFile' = alertsFile]_vars

\* C19: starting from a list without duplicates, the tracked list never holds
\* a handle twice; it holds h after addTrackedAccount(h) and does not hold h
\* after removeTrackedAccount(h); and calling either again with the same
\* handle leaves the list as it is.
C19_RegistryIdempotent ==
  /\ \A i, j \in 1..Len(trackedAccounts) :
       trackedAccounts[i] = trackedAccounts[j] => i = j
  /\ last.op = "addTrackedAccount" =>
       /\ last.arg \in Range(trackedAccounts)
       /\ addTrackedAccount(trackedAccounts, last.arg).accounts = trackedAccounts
  /\ last.op = "removeTrackedAccount" =>
       /\ last.arg \notin Range(trackedAccounts)
       /\ removeTrackedAccount(trackedAccounts, last.arg).accounts
            = trackedAccounts

\* C19 witness: addTrackedAccount was called with a handle that was tracked
\* already, among others, and returned false
C19_Witness ==
  /\ last.op = "addTrackedAccount"
  /\ last.returned = FALSE
  /\ Len(trackedAccounts) > 1
  /\ trackedAccounts # options.trackedAccounts

\* C20: once addSubscriber(d) has returned, getSubscriber(d.id) returns a
\* record with the id and the email of d, whatever addSubscriber and
\* deactivateSubscriber calls have come after it.
C20_AddedStaysFound ==
  /\ \A d \in added :
       LET found == getSubscriber(subscribersFile, d.id)
       IN  /\ Len(found) = 1
           /\ found[1].id = d.id
           /\ found[1].email = d.email
  /\ (last.op = "getSubscriber" /\ \E d \in added : d.id = last.arg)
       => /\ Len(last.returned) = 1
          /\ last.returned[1].id = last.arg
          /\ [id |-> last.arg, email |-> last.returned[1].email] \in added

\* C20 witness: a second subscriber was added after the first and then
\* deactivated, and getSubscriber still returned the first
C20_Witness ==
  /\ last.op = "getSubscriber"
  /\ Len(subscribersFile) = 2
  /\ subscribersFile[2].status = "inactive"
  /\ last.arg = subscribersFile[1].id
  /\ Len(last.returned) = 1
  /\ last.returned[1].id = last.arg
  /\ last.returned[1].status = "active"

\* C21: processAlerts admits a candidate exactly when, at the moment the loop
\* examines it, neither the alerts loaded from the file nor the alerts
\* admitted earlier in the same call hold one of the same account and the same
\* type detected strictly less than alertCooldown before the gate's clock
\* reading; the candidate's own detectedAt is not consulted.
C21_GateIff ==
  \A p \in Runs :
    GateRan(p) =>
      LET cs == run[p].contradictions
          t == trace[p].gateAt
          new == run[p].newAlerts
          admitted(k) == \E a \in Range(new) : FromCandidate(a, cs[k])
          history(k) ==
            Range(trace[p].loaded)
              \cup {a \in Range(new) :
                      \E j \in 1..(k-1) : FromCandidate(a, cs[j])}
          suppressing(k) ==
            {a \in history(k) :
               /\ SameKey(a, cs[k])
               /\ t - DetectedAt(a) < alertCooldown}
      IN  \A k \in 1..Len(cs) : admitted(k) <=> suppressing(k) = {}

\* C21 witness: the file held an alert of the first candidate's key detected
\* exactly alertCooldown before the gate ran, the second candidate had the
\* same type for the other account, and both were admitted
C21_Witness ==
  /\ GateRan(1)
  /\ Len(trace[1].loaded) = 1
  /\ Len(run[1].contradictions) = 2
  /\ SameKey(trace[1].loaded[1], run[1].contradictions[1])
  /\ trace[1].gateAt - DetectedAt(trace[1].loaded[1]) = alertCooldown
  /\ run[1].contradictions[2].type = run[1].contradictions[1].type
  /\ run[1].contradictions[2].account # run[1].contradictions[1].account
  /\ Len(run[1].newAlerts) = 2

\* C22: compareTweets returns at most one candidate for a pair, and when the
\* pair satisfies the sentiment rule that candidate is the sentiment one even
\* if the topic rule is satisfied too; findContradictions on n tweets returns
\* at most n * (n - 1) / 2 candidates.
C22_OnePerPair ==
  /\ last.op = "compareTweets" =>
       /\ Len(last.returned) <= 1
       /\ SentimentBranch(input[1], input[2]) =>
            /\ Len(last.returned) = 1
            /\ last.returned[1].type = "sentiment-contradiction"
  /\ last.op = "findContradictions" =>
       2 * Len(last.returned) <= Len(input) * (Len(input) - 1)

\* C22 witness: the two tweets take opposite stances and also speak of the
\* same topic with opposite scores, and compareTweets returned the sentiment
\* candidate alone
C22_Witness ==
  /\ last.op = "compareTweets"
  /\ SentimentBranch(input[1], input[2])
  /\ \E k \in 1..Len(keywords) : Mentions(input[1], k) /\ Mentions(input[2], k)
  /\ ScoresOppose(input[1], input[2])
  /\ Len(last.returned) = 1
  /\ last.returned[1].type = "sentiment-contradiction"

\* the tweets of a list have pairwise distinct timestamps
DistinctTimestamps(tweets) ==
  \A i \in 1..Len(tweets) : \A j \in 1..Len(tweets) :
    i # j => tweets[i].timestamp # tweets[j].timestamp

\* the rearrangements of a list
Rearranged(tweets) ==
  LET n == Len(tweets)
  IN  {[k \in 1..n |-> tweets[f[k]]] :
         f \in {g \in [1..n -> 1..n] : \A a \in 1..n : \E b \in 1..n : g[b] = a}}

\* the pairs (i, j) with i < j <= n, in the order of two nested loops
PairsInOrder(n) ==
  LET pairs == {ij \in (1..n) \X (1..n) : ij[1] < ij[2]}
      before(a, b) == a[1] < b[1] \/ (a[1] = b[1] /\ a[2] < b[2])
  IN  CHOOSE seq \in [1..Cardinality(pairs) -> pairs] :
        \A a \in DOMAIN seq : \A b \in DOMAIN seq :
          a < b => before(seq[a], seq[b])

RECURSIVE ConcatAll(_)
ConcatAll(lists) ==
  IF lists = << >> THEN << >> ELSE Head(lists) \o ConcatAll(Tail(lists))

\* C23: for tweets with pairwise distinct timestamps, findContradictions
\* returns the same list for every rearrangement of its input: the results of
\* compareTweets(newer, older) for each pair of tweets, once per pair, in the
\* order of the two nested loops over the tweets sorted newest first.
C23_OrderIndependent ==
  (last.op = "findContradictions" /\ DistinctTimestamps(input)) =>
    LET n == Len(input)
        sorted == CHOOSE l \in Rearranged(input) :
                    \A k \in 1..(n-1) : l[k].timestamp > l[k+1].timestamp
        pairs == PairsInOrder(n)
        expected ==
          ConcatAll([k \in 1..Len(pairs) |->
                       compareTweets(sorted[pairs[k][1]], sorted[pairs[k][2]])])
    IN  /\ last.returned = expected
        /\ \A l \in Rearranged(input) : findContradictions(l) = last.returned
        /\ \A k \in 1..Len(last.returned) :
             last.returned[k].tweet1.timestamp > last.returned[k].tweet2.timestamp

\* C23 witness: three tweets were given oldest first and findContradictions
\* returned a candidate for more than one pair of them
C23_Witness ==
  /\ last.op = "findContradictions"
  /\ Len(input) = 3
  /\ input[1].timestamp < input[2].timestamp
  /\ input[2].timestamp < input[3].timestamp
  /\ Len(last.returned) >= 2

\* C24: no two alerts in the store have the same id, whatever calls of
\* processAlerts have written it, alerts created at the same clock reading of
\* the same call included.
C24_UniqueIds ==
  \A i \in 1..Len(alertsFile.data) : \A j \in 1..Len(alertsFile.data) :
    i # j => alertsFile.data[i].id # alertsFile.data[j].id

\* C25: a sweep that found no contradiction returned the empty list without
\* having read or written the alert store; a sweep whose candidates were all
\* suppressed did not write the store, which is as the sweep loaded it, and
\* handed nothing to sendAlertsToSubscribers.
C25_NothingAdmitted ==
  \A p \in Runs :
    Settled(p) =>
      /\ run[p].allContradictions = << >> =>
           /\ result[p] = Resolved(<< >>)
           /\ ~GateRan(p)
           /\ ~trace[p].written
           /\ trace[p].handed = 0
      /\ (GateRan(p) /\ run[p].newAlerts = << >>) =>
           /\ result[p] = Resolved(run[p].allContradictions)
           /\ ~trace[p].written
           /\ trace[p].handed = 0
           /\ alertsFile.data = trace[p].loaded

\* C25 witness: a second sweep found a contradiction whose key had an alert
\* on file inside the cooldown, and admitted nothing
C25_Witness ==
  /\ Settled(1) /\ GateRan(1)
  /\ Len(run[1].contradictions) > 0
  /\ run[1].newAlerts = << >>
  /\ Len(alertsFile.data) > 0
  /\ ~trace[1].written

\* C26: after any sequence of addSubscriber, updateSubscriber and
\* deactivateSubscriber calls on a store that started empty, no two stored
\* subscribers have the same id and no two have the same email.
C26_UniqueIdAndEmail ==
  \A i \in 1..Len(subscribersFile) : \A j \in 1..Len(subscribersFile) :
    i # j => /\ subscribersFile[i].id # subscribersFile[j].id
             /\ subscribersFile[i].email # subscribersFile[j].email

\* addSubscriber(data) is to be rejected on this array
AddRejected(subscribers, data) ==
  \/ ~Truthy(data, "id")
  \/ ~Truthy(data, "email")
  \/ \E k \in 1..Len(subscribers) :
       subscribers[k].id = data.id \/ subscribers[k].email = data.email

\* no subscriber of the array has this id
UnknownId(subscribers, id) ==
  \A k \in 1..Len(subscribers) : subscribers[k].id # id

\* C27: a call of addSubscriber without id or email, or with the id or the
\* email of a stored subscriber, and a call of updateSubscriber or
\* deactivateSubscriber with an id no stored subscriber has, throws and
\* leaves the stored array exactly as it was.
C27_RejectedLeavesStore ==
  [][ /\ \A data \in PlainData :
           (AddSubscriber(data) /\ AddRejected(subscribersFile, data)) =>
             (last'.returned.threw /\ subscribersFile' = subscribersFile)
      /\ \A id \in SubscriberIds : \A updates \in Updates :
           (UpdateSubscriber(id, updates) /\ UnknownId(subscribersFile, id)) =>
             (last'.returned.threw /\ subscribersFile' = subscribersFile)
      /\ \A id \in SubscriberIds :
           (DeactivateSubscriber(id) /\ UnknownId(subscribersFile, id)) =>
             (last'.returned.threw /\ subscribersFile' = subscribersFile)
    ]_vars

\* C27 witness: addSubscriber was called with a new id and the email of a
\* stored subscriber, and threw
C27_Witness ==
  /\ last.op = "addSubscriber"
  /\ last.returned.threw
  /\ Truthy(last.arg, "id") /\ Truthy(last.arg, "email")
  /\ Len(subscribersFile) = 1
  /\ subscribersFile[1].email = last.arg.email
  /\ subscribersFile[1].id # last.arg.id

\* C28: no enabled job is registered with the scheduler more than once on an
\* AlphaSignal instance, whether init() ran from the constructor alone or was
\* awaited again afterwards, and no tick starts the contradiction check twice.
C28_RegisteredOnce ==
  /\ \A i \in 1..Len(app.scheduled) : \A j \in 1..Len(app.scheduled) :
       i # j => app.scheduled[i].job.name # app.scheduled[j].job.name
  /\ \A f \in app.fired : \A g \in app.fired :
       (f.t = g.t /\ f.route = "contradictionAlerts.check"
          /\ g.route = "contradictionAlerts.check") => f = g

\* C29: a run of a scheduled job that fails, because executeJob throws on the
\* payload kind or because the routed handler rejects, is caught and printed
\* by its callback and never escapes it; afterwards the callbacks still due
\* on this tick can run, and the next tick can come once they have.
C29_FailureContained ==
  /\ ~app.escaped
  /\ \A f \in app.fired : f.failed => f.caught
  /\ \A k \in 1..Len(app.scheduled) :
       (~FiredNow(k) /\ \A j \in 1..(k-1) : FiredNow(j)) =>
         ENABLED (\E handler \in Settles : CronCallback(k, handler))
  /\ ((\A k \in 1..Len(app.scheduled) : FiredNow(k)) /\ now < MaxTime) =>
       ENABLED CronTick

\* C29 witness: the contradiction check rejected on one tick and the job with
\* the unknown payload kind threw; the same registration of the check ran
\* again on a later tick, and so did the other job
C29_Witness ==
  \E f \in app.fired : \E g \in app.fired : \E h \in app.fired :
    /\ f.failed /\ f.route = "contradictionAlerts.check"
    /\ g.k = f.k /\ g.t > f.t /\ ~g.failed
    /\ h.k # f.k /\ h.t > f.t /\ h.failed /\ h.route = "none"

\* C30: after n calls of trackError on an empty error list, metrics.errors
\* holds the records of the last min(n, 100) calls, oldest first, so it never
\* holds more than 100.
C30_LastHundred ==
  LET n == tracked
      len == Len(metrics.errors)
  IN  /\ len = IF n < ErrorsKept THEN n ELSE ErrorsKept
      /\ \A k \in 1..len : metrics.errors[k].message = n - len + k

\* C30 witness: more calls than the list keeps have been made, and the list
\* starts at the record of the oldest call it still keeps
C30_Witness ==
  /\ last.op = "trackError"
  /\ tracked > ErrorsKept + 1
  /\ Len(metrics.errors) = ErrorsKept
  /\ metrics.errors[1].message = tracked - ErrorsKept + 1

====
